---------------------------- MODULE Spec2Model ----------------------------
(***************************************************************************)
(* Model of the portfolio site's client logic: the project filter of the   *)
(* home page (filteredProjects) and the terminal widget (CLI.tsx) with its *)
(* two hosts.  A JavaScript string is a sequence of one-character strings, *)
(* so that toLowerCase, includes, trim, split and join are computed        *)
(* character by character as the runtime computes them.                    *)
(***************************************************************************)
EXTENDS Integers, Sequences, FiniteSets, TLC

\* ------------------------------------------------------------------ bounds
MaxCatalog == 2      \* longest synthetic catalog drawn in Init
MaxSelected == 2     \* most domains (and most types) selected at once
MaxHistory == 3      \* history length at which the recall model stops entering
MaxEntries == 2      \* history length at which the command model stops entering
MaxChips == 1        \* most filter chips selected at once in the catalog model
MaxTicks == 100      \* timer ticks followed in the hero model
MaxSends == 4        \* sends in flight at which the contact model stops submitting
MaxTimers == 4       \* pending reset timers at which the contact model stops

\* ------------------------------------------------- JavaScript string model
UpperAlpha ==
  <<"A","B","C","D","E","F","G","H","I","J","K","L","M",
    "N","O","P","Q","R","S","T","U","V","W","X","Y","Z">>

LowerAlpha ==
  <<"a","b","c","d","e","f","g","h","i","j","k","l","m",
    "n","o","p","q","r","s","t","u","v","w","x","y","z">>

\* the lower-case letter of every upper-case letter, and the converse
LowerOf ==
  [c \in { UpperAlpha[i] : i \in 1..26 } |->
     LowerAlpha[CHOOSE i \in 1..26 : UpperAlpha[i] = c]]

UpperOf ==
  [c \in { LowerAlpha[i] : i \in 1..26 } |->
     UpperAlpha[CHOOSE i \in 1..26 : LowerAlpha[i] = c]]

\* String.prototype.toLowerCase on one character
ToLowerChar(c) == IF c \in DOMAIN LowerOf THEN LowerOf[c] ELSE c

\* String.prototype.toUpperCase on one character
ToUpperChar(c) == IF c \in DOMAIN UpperOf THEN UpperOf[c] ELSE c

toLowerCase(s) == [i \in 1..Len(s) |-> ToLowerChar(s[i])]

toUpperCase(s) == [i \in 1..Len(s) |-> ToUpperChar(s[i])]

\* String.prototype.includes: q occurs in s at some offset
includes(s, q) ==
  \E off \in 0..(Len(s) - Len(q)) : SubSeq(s, off + 1, off + Len(q)) = q

\* the characters String.prototype.trim removes
WhiteSpace == {" ", "\t"}

RECURSIVE trimStart(_)
trimStart(s) ==
  IF s # <<>> /\ Head(s) \in WhiteSpace THEN trimStart(Tail(s)) ELSE s

RECURSIVE trimEnd(_)
trimEnd(s) ==
  IF s # <<>> /\ s[Len(s)] \in WhiteSpace
    THEN trimEnd(SubSeq(s, 1, Len(s) - 1))
    ELSE s

trim(s) == trimEnd(trimStart(s))

\* String.prototype.split(' '): cut at every single space, keeping empty pieces
RECURSIVE splitFrom(_, _, _)
splitFrom(s, i, cur) ==
  IF i > Len(s) THEN <<cur>>
  ELSE IF s[i] = " " THEN <<cur>> \o splitFrom(s, i + 1, <<>>)
  ELSE splitFrom(s, i + 1, Append(cur, s[i]))

split(s) == splitFrom(s, 1, <<>>)

\* Array.prototype.join(' ')
RECURSIVE join(_)
join(a) ==
  IF a = <<>> THEN <<>>
  ELSE IF Len(a) = 1 THEN a[1]
  ELSE a[1] \o <<" ">> \o join(Tail(a))

\* ----------------------------------------------------------- the catalog
RealCatalog ==
  <<
  [ id |-> <<"o", "w", "l", "-", "w", "a", "t", "c", "h">>,
    title |-> <<"O", "w", "l", "-", "W", "a", "t", "c", "h">>,
    domain |-> <<"D", "a", "t", "a", " ", "E", "n", "g", "i", "n", "e", "e", "r", "i", "n", "g">>,
    type |-> [isArray |-> FALSE, v |-> <<<<"O", "p", "e", "n", " ", "S", "o", "u", "r", "c", "e">>>>],
    description |-> <<"A", "W", "S", "-", "n", "a", "t", "i", "v", "e", " ", "d", "a", "t", "a", " ", "e", "n", "g", "i", "n", "e", "e", "r", "i", "n", "g", " ", "p", "i", "p", "e", "l", "i", "n", "e", " ", "u", "s", "i", "n", "g", " ", "G", "l", "u", "e", ",", " ", "B", "e", "d", "r", "o", "c", "k", ",", " ", "a", "n", "d", " ", "M", "L", " ", "f", "o", "r", " ", "i", "n", "g", "e", "s", "t", "i", "n", "g", ",", " ", "p", "r", "o", "c", "e", "s", "s", "i", "n", "g", ",", " ", "a", "n", "d", " ", "c", "u", "r", "a", "t", "i", "n", "g", " ", "d", "a", "t", "a", " ", "w", "i", "t", "h", " ", "P", "y", "S", "p", "a", "r", "k", " ", "E", "T", "L", " ", "j", "o", "b", "s", ".">>,
    techStack |-> <<<<"P", "y", "t", "h", "o", "n">>, <<"T", "y", "p", "e", "S", "c", "r", "i", "p", "t">>, <<"A", "W", "S", " ", "C", "D", "K">>, <<"P", "y", "S", "p", "a", "r", "k">>, <<"A", "W", "S", " ", "G", "l", "u", "e">>, <<"B", "e", "d", "r", "o", "c", "k">>>>,
    featured |-> FALSE ],
  [ id |-> <<"l", "o", "c", "k", "-", "a", "n", "d", "-", "k", "e", "y">>,
    title |-> <<"L", "o", "c", "k", "-", "A", "n", "d", "-", "K", "e", "y">>,
    domain |-> <<"S", "e", "c", "u", "r", "i", "t", "y">>,
    type |-> [isArray |-> TRUE, v |-> <<<<"O", "p", "e", "n", " ", "S", "o", "u", "r", "c", "e">>, <<"P", "u", "b", "l", "i", "s", "h", "e", "d", " ", "P", "a", "c", "k", "a", "g", "e">>>>],
    description |-> <<"M", "u", "l", "t", "i", "-", "c", "l", "o", "u", "d", " ", "s", "e", "c", "u", "r", "i", "t", "y", " ", "s", "c", "a", "n", "n", "e", "r", " ", "a", "n", "a", "l", "y", "z", "i", "n", "g", " ", "I", "A", "M", " ", "a", "n", "d", " ", "r", "e", "s", "o", "u", "r", "c", "e", "-", "b", "a", "s", "e", "d", " ", "p", "o", "l", "i", "c", "i", "e", "s", " ", "t", "o", " ", "i", "d", "e", "n", "t", "i", "f", "y", " ", "v", "u", "l", "n", "e", "r", "a", "b", "i", "l", "i", "t", "i", "e", "s", " ", "a", "n", "d", " ", "e", "x", "c", "e", "s", "s", "i", "v", "e", " ", "p", "e", "r", "m", "i", "s", "s", "i", "o", "n", "s", " ", "a", "c", "r", "o", "s", "s", " ", "A", "W", "S", ",", " ", "A", "z", "u", "r", "e", ",", " ", "a", "n", "d", " ", "G", "C", "P", ".">>,
    techStack |-> <<<<"P", "y", "t", "h", "o", "n">>, <<"A", "W", "S", " ", "S", "D", "K">>, <<"A", "z", "u", "r", "e", " ", "S", "D", "K">>, <<"G", "C", "P", " ", "S", "D", "K">>, <<"I", "n", "t", "e", "r", "a", "c", "t", "i", "v", "e", " ", "C", "L", "I">>>>,
    featured |-> TRUE ],
  [ id |-> <<"h", "o", "r", "i", "z", "o", "n", "s", "e", "c">>,
    title |-> <<"H", "o", "r", "i", "z", "o", "n", "S", "e", "c", " ", "P", "r", "o", "j", "e", "c", "t">>,
    domain |-> <<"S", "e", "c", "u", "r", "i", "t", "y">>,
    type |-> [isArray |-> FALSE, v |-> <<<<"O", "p", "e", "n", " ", "S", "o", "u", "r", "c", "e">>>>],
    description |-> <<"M", "o", "d", "u", "l", "a", "r", " ", "s", "e", "c", "u", "r", "i", "t", "y", " ", "t", "o", "o", "l", "k", "i", "t", " ", "i", "n", "t", "e", "g", "r", "a", "t", "i", "n", "g", " ", "d", "i", "r", "e", "c", "t", "l", "y", " ", "i", "n", "t", "o", " ", "d", "e", "v", "e", "l", "o", "p", "e", "r", " ", "w", "o", "r", "k", "f", "l", "o", "w", "s", " ", "w", "i", "t", "h", " ", "G", "A", "I", "A", " ", "(", "o", "r", "c", "h", "e", "s", "t", "r", "a", "t", "i", "o", "n", ")", ",", " ", "D", "E", "M", "E", "T", "E", "R", " ", "(", "i", "n", "f", "r", "a", "s", "t", "r", "u", "c", "t", "u", "r", "e", " ", "s", "c", "a", "n", "n", "i", "n", "g", ")", ",", " ", "H", "A", "D", "E", "S", " ", "(", "e", "n", "d", "p", "o", "i", "n", "t", " ", "s", "e", "c", "u", "r", "i", "t", "y", ")", ",", " ", "a", "n", "d", " ", "A", "R", "T", "E", "M", "I", "S", " ", "(", "s", "t", "a", "t", "i", "c", " ", "a", "n", "a", "l", "y", "s", "i", "s", ")", ".">>,
    techStack |-> <<<<"P", "y", "t", "h", "o", "n">>, <<"T", "y", "p", "e", "S", "c", "r", "i", "p", "t">>, <<"S", "e", "c", "u", "r", "i", "t", "y", " ", "T", "o", "o", "l", "s">>, <<"C", "I", "/", "C", "D", " ", "I", "n", "t", "e", "g", "r", "a", "t", "i", "o", "n">>>>,
    featured |-> TRUE ],
  [ id |-> <<"t", "h", "e", "-", "d", "a", "t", "a", "-", "p", "a", "c", "k", "e", "t">>,
    title |-> <<"T", "h", "e", "-", "D", "a", "t", "a", "-", "P", "a", "c", "k", "e", "t">>,
    domain |-> <<"R", "e", "s", "e", "a", "r", "c", "h">>,
    type |-> [isArray |-> FALSE, v |-> <<<<"R", "e", "s", "e", "a", "r", "c", "h">>>>],
    description |-> <<"R", "e", "s", "e", "a", "r", "c", "h", " ", "p", "r", "o", "j", "e", "c", "t", " ", "e", "x", "p", "l", "o", "r", "i", "n", "g", " ", "d", "a", "t", "a", " ", "p", "r", "o", "c", "e", "s", "s", "i", "n", "g", " ", "a", "n", "d", " ", "a", "n", "a", "l", "y", "s", "i", "s", " ", "t", "e", "c", "h", "n", "i", "q", "u", "e", "s", ".">>,
    techStack |-> <<<<"P", "y", "t", "h", "o", "n">>, <<"D", "a", "t", "a", " ", "A", "n", "a", "l", "y", "s", "i", "s">>>>,
    featured |-> FALSE ],
  [ id |-> <<"t", "h", "o", "u", "g", "h", "t", "-", "s", "m", "i", "t", "h">>,
    title |-> <<"t", "h", "o", "u", "g", "h", "t", "-", "s", "m", "i", "t", "h">>,
    domain |-> <<"W", "e", "b", " ", "D", "e", "v", "e", "l", "o", "p", "m", "e", "n", "t">>,
    type |-> [isArray |-> FALSE, v |-> <<<<"O", "p", "e", "n", " ", "S", "o", "u", "r", "c", "e">>>>],
    description |-> <<"W", "e", "b", " ", "d", "e", "v", "e", "l", "o", "p", "m", "e", "n", "t", " ", "p", "r", "o", "j", "e", "c", "t", " ", "s", "h", "o", "w", "c", "a", "s", "i", "n", "g", " ", "m", "o", "d", "e", "r", "n", " ", "f", "r", "o", "n", "t", "e", "n", "d", " ", "t", "e", "c", "h", "n", "i", "q", "u", "e", "s", " ", "a", "n", "d", " ", "b", "e", "s", "t", " ", "p", "r", "a", "c", "t", "i", "c", "e", "s", ".">>,
    techStack |-> <<<<"T", "y", "p", "e", "S", "c", "r", "i", "p", "t">>, <<"R", "e", "a", "c", "t">>, <<"N", "e", "x", "t", ".", "j", "s">>>>,
    featured |-> FALSE ],
  [ id |-> <<"t", "h", "e", "-", "d", "e", "p", "l", "o", "y", "m", "e", "n", "t", "-", "f", "o", "r", "g", "e">>,
    title |-> <<"T", "h", "e", "-", "D", "e", "p", "l", "o", "y", "m", "e", "n", "t", "-", "F", "o", "r", "g", "e">>,
    domain |-> <<"I", "n", "f", "r", "a", "s", "t", "r", "u", "c", "t", "u", "r", "e">>,
    type |-> [isArray |-> FALSE, v |-> <<<<"O", "p", "e", "n", " ", "S", "o", "u", "r", "c", "e">>>>],
    description |-> <<"I", "n", "f", "r", "a", "s", "t", "r", "u", "c", "t", "u", "r", "e", " ", "a", "u", "t", "o", "m", "a", "t", "i", "o", "n", " ", "a", "n", "d", " ", "d", "e", "p", "l", "o", "y", "m", "e", "n", "t", " ", "t", "o", "o", "l", "i", "n", "g", " ", "f", "o", "r", " ", "m", "o", "d", "e", "r", "n", " ", "c", "l", "o", "u", "d", " ", "e", "n", "v", "i", "r", "o", "n", "m", "e", "n", "t", "s", ".">>,
    techStack |-> <<<<"P", "y", "t", "h", "o", "n">>, <<"I", "n", "f", "r", "a", "s", "t", "r", "u", "c", "t", "u", "r", "e", " ", "a", "s", " ", "C", "o", "d", "e">>, <<"C", "I", "/", "C", "D">>>>,
    featured |-> FALSE ],
  [ id |-> <<"w", "h", "o", "m", "p", "i", "n", "g", "-", "w", "i", "l", "l", "o", "w">>,
    title |-> <<"W", "h", "o", "m", "p", "i", "n", "g", "-", "W", "i", "l", "l", "o", "w">>,
    domain |-> <<"W", "e", "b", " ", "D", "e", "v", "e", "l", "o", "p", "m", "e", "n", "t">>,
    type |-> [isArray |-> FALSE, v |-> <<<<"O", "p", "e", "n", " ", "S", "o", "u", "r", "c", "e">>>>],
    description |-> <<"W", "e", "b", " ", "d", "e", "v", "e", "l", "o", "p", "m", "e", "n", "t", " ", "p", "r", "o", "j", "e", "c", "t", " ", "w", "i", "t", "h", " ", "m", "o", "d", "e", "r", "n", " ", "U", "I", "/", "U", "X", " ", "p", "a", "t", "t", "e", "r", "n", "s", ".">>,
    techStack |-> <<<<"J", "a", "v", "a", "S", "c", "r", "i", "p", "t">>, <<"R", "e", "a", "c", "t">>>>,
    featured |-> FALSE ],
  [ id |-> <<"h", "o", "g", "w", "a", "r", "t", "s">>,
    title |-> <<"H", "o", "g", "w", "a", "r", "t", "s">>,
    domain |-> <<"W", "e", "b", " ", "D", "e", "v", "e", "l", "o", "p", "m", "e", "n", "t">>,
    type |-> [isArray |-> FALSE, v |-> <<<<"O", "p", "e", "n", " ", "S", "o", "u", "r", "c", "e">>>>],
    description |-> <<"W", "e", "b", " ", "d", "e", "v", "e", "l", "o", "p", "m", "e", "n", "t", " ", "p", "r", "o", "j", "e", "c", "t", " ", "d", "e", "m", "o", "n", "s", "t", "r", "a", "t", "i", "n", "g", " ", "f", "u", "l", "l", "-", "s", "t", "a", "c", "k", " ", "c", "a", "p", "a", "b", "i", "l", "i", "t", "i", "e", "s", ".">>,
    techStack |-> <<<<"T", "y", "p", "e", "S", "c", "r", "i", "p", "t">>, <<"R", "e", "a", "c", "t">>, <<"N", "o", "d", "e", ".", "j", "s">>>>,
    featured |-> FALSE ],
  [ id |-> <<"n", "e", "t", "s", "e", "c", "u", "r", "e">>,
    title |-> <<"N", "e", "t", "S", "e", "c", "u", "r", "e">>,
    domain |-> <<"D", "e", "s", "i", "g", "n">>,
    type |-> [isArray |-> TRUE, v |-> <<<<"O", "p", "e", "n", " ", "S", "o", "u", "r", "c", "e">>>>],
    description |-> <<"S", "e", "c", "u", "r", "i", "t", "y", "-", "f", "o", "c", "u", "s", "e", "d", " ", "d", "e", "s", "i", "g", "n", " ", "c", "o", "n", "c", "e", "p", "t", " ", "s", "h", "o", "w", "c", "a", "s", "i", "n", "g", " ", "m", "o", "d", "e", "r", "n", " ", "U", "I", "/", "U", "X", " ", "f", "o", "r", " ", "s", "e", "c", "u", "r", "i", "t", "y", " ", "a", "p", "p", "l", "i", "c", "a", "t", "i", "o", "n", "s", ".">>,
    techStack |-> <<<<"D", "e", "s", "i", "g", "n">>, <<"U", "I", "/", "U", "X">>>>,
    featured |-> FALSE ]
  >>

\* ProjectDomain and ProjectType values (types/project.ts)
Security == <<"S","e","c","u","r","i","t","y">>
DataEngineering == <<"D","a","t","a"," ","E","n","g","i","n","e","e","r","i","n","g">>
WebDevelopment == <<"W","e","b"," ","D","e","v","e","l","o","p","m","e","n","t">>
Infrastructure == <<"I","n","f","r","a","s","t","r","u","c","t","u","r","e">>
ResearchDomain == <<"R","e","s","e","a","r","c","h">>
Design == <<"D","e","s","i","g","n">>

OpenSource == <<"O","p","e","n"," ","S","o","u","r","c","e">>
Commercial == <<"C","o","m","m","e","r","c","i","a","l">>
ResearchType == <<"R","e","s","e","a","r","c","h">>
Learning == <<"L","e","a","r","n","i","n","g">>
PublishedPackage == <<"P","u","b","l","i","s","h","e","d"," ","P","a","c","k","a","g","e">>

\* Small records of the Project shape, from which Init also draws catalogs
\* other than the shipped one: a single-valued and a list-valued type, an id
\* that occurs inside another project's title, upper and lower case text.
PoolProjects ==
  { [ id |-> <<"k","i","t">>, title |-> <<"T","o","o","l","B","o","x">>,
      domain |-> Security,
      type |-> [isArray |-> TRUE, v |-> <<OpenSource, PublishedPackage>>],
      description |-> <<"s","c","a","n">>,
      techStack |-> <<<<"P","y","t","h","o","n">>, <<"R","e","a","c","t">>>>,
      featured |-> TRUE ],
    [ id |-> <<"b","o","x">>, title |-> <<"V","a","u","l","t">>,
      domain |-> ResearchDomain,
      type |-> [isArray |-> FALSE, v |-> <<ResearchType>>],
      description |-> <<"R","e","a","c","t","i","v","e">>,
      techStack |-> <<>>,
      featured |-> FALSE ],
    [ id |-> <<"w","e","b">>, title |-> <<"S","i","t","e">>,
      domain |-> WebDevelopment,
      type |-> [isArray |-> TRUE, v |-> <<Commercial>>],
      description |-> <<"k","i","t">>,
      techStack |-> <<<<"N","e","x","t">>>>,
      featured |-> FALSE ] }

RECURSIVE SeqsOfDistinct(_, _)
SeqsOfDistinct(S, n) ==
  IF n = 0 THEN { <<>> }
  ELSE LET shorter == SeqsOfDistinct(S, n - 1)
       IN  shorter \cup
           { Append(c, p) : c \in { d \in shorter : Len(d) = n - 1 },
                            p \in S } 

HasUniqueIds(c) ==
  \A i, j \in 1..Len(c) : c[i].id = c[j].id => i = j

Catalogs ==
  { RealCatalog } \cup
  { c \in SeqsOfDistinct(PoolProjects, MaxCatalog) : HasUniqueIds(c) }

\* ------------------------------------------------------------------ state
VARIABLES
  projects,         \* the catalog (data/projects.ts), fixed after Init
  host,             \* which component renders the widget: "Home" or "CLIToggle"
  cliOpen,          \* host state cliOpen, passed to the widget as isOpen
  selectedProject,  \* Home state: <<>> for null, <<p>> for a project
  searchQuery,      \* Home state: the search box
  selectedDomains,  \* Home state: Set<ProjectDomain>
  selectedTypes,    \* Home state: Set<ProjectType>
  commandHistory,   \* widget state: sequence of [command, output]
  currentInput,     \* widget state: the input buffer
  commandIndex,     \* widget state: recall cursor, -1 when not browsing
  event,            \* name of the handler that ran last
  navCalled,        \* ids passed to onNavigateToProject by that handler
  closeCalled,      \* number of onClose calls made by that handler
  thrown,           \* TRUE when that handler ended with an uncaught exception
  themeName,        \* ThemeProvider state
  colorMode,        \* ThemeProvider state
  mounted,          \* ThemeProvider state
  storage,          \* localStorage: keys 'theme' and 'colorMode', <<>> when absent
  storageWorks,     \* FALSE when localStorage calls throw
  currentTagline,   \* Hero state: index into taglines
  ticks,            \* number of interval callbacks run since Hero mounted
  status,           \* ContactSection state
  emailConfigured,  \* TRUE when the three EmailJS settings are present
  inFlight,         \* emailjs.send promises not yet settled
  simulations,      \* pending 1000 ms timers of the fallback simulation
  resetTimers       \* pending timers that set the status back to 'idle'

vars ==
  <<projects, host, cliOpen, selectedProject, searchQuery, selectedDomains,
    selectedTypes, commandHistory, currentInput, commandIndex, event,
    navCalled, closeCalled, thrown, themeName, colorMode, mounted, storage,
    storageWorks, currentTagline, ticks, status, emailConfigured, inFlight,
    simulations, resetTimers>>

pageVars == <<searchQuery, selectedDomains, selectedTypes>>

widgetVars == <<commandHistory, currentInput, commandIndex>>

themeVars == <<themeName, colorMode, mounted, storage, storageWorks>>

heroVars == <<currentTagline, ticks>>

contactVars == <<status, emailConfigured, inFlight, simulations, resetTimers>>

\* the state of the components outside the home page and the widget
siteVars == <<themeVars, heroVars, contactVars>>

\* the state of the home page, the widget and their catalog
portfolioVars ==
  <<projects, host, cliOpen, selectedProject, pageVars, widgetVars>>

\* the filter chips rendered by the home page
domains ==
  <<Security, DataEngineering, WebDevelopment, Infrastructure, ResearchDomain,
    Design>>

types == <<OpenSource, Commercial, ResearchType, Learning, PublishedPackage>>

\* ------------------------------------------------- the home page's filter
\* Array.isArray(project.type) ? project.type : [project.type]
projectTypes(project) ==
  IF project.type.isArray THEN project.type.v ELSE <<project.type.v[1]>>

\* variant: the query is compared without lower-casing it
matchesSearchCaseSensitive(project, searchQ) ==
  LET query == searchQ
  IN  \/ includes(toLowerCase(project.title), query)
      \/ includes(toLowerCase(project.description), query)
      \/ \E i \in 1..Len(project.techStack) :
           includes(toLowerCase(project.techStack[i]), query)

matchesSearch(project, searchQ) ==
  LET query == toLowerCase(searchQ)
  IN  \/ includes(toLowerCase(project.title), query)
      \/ includes(toLowerCase(project.description), query)
      \/ \E i \in 1..Len(project.techStack) :
           includes(toLowerCase(project.techStack[i]), query)

hasMatchingType(project, selTypes) ==
  \E i \in 1..Len(projectTypes(project)) : projectTypes(project)[i] \in selTypes

\* variant: the domain test is skipped
filterCallbackNoDomain(project, searchQ, selDomains, selTypes) ==
  IF searchQ # <<>> /\ ~matchesSearch(project, searchQ) THEN FALSE
  ELSE IF Cardinality(selTypes) > 0 /\ ~hasMatchingType(project, selTypes)
    THEN FALSE
  ELSE TRUE

\* variant: the domain test is made even when no domain is selected
filterCallbackAlwaysDomain(project, searchQ, selDomains, selTypes) ==
  IF searchQ # <<>> /\ ~matchesSearch(project, searchQ) THEN FALSE
  ELSE IF project.domain \notin selDomains THEN FALSE
  ELSE IF Cardinality(selTypes) > 0 /\ ~hasMatchingType(project, selTypes)
    THEN FALSE
  ELSE TRUE

\* variant: the type test is made only for list-valued types
filterCallbackListTypesOnly(project, searchQ, selDomains, selTypes) ==
  IF searchQ # <<>> /\ ~matchesSearch(project, searchQ) THEN FALSE
  ELSE IF Cardinality(selDomains) > 0 /\ project.domain \notin selDomains
    THEN FALSE
  ELSE IF /\ Cardinality(selTypes) > 0
          /\ project.type.isArray
          /\ ~hasMatchingType(project, selTypes)
    THEN FALSE
  ELSE TRUE

\* the callback given to projects.filter, with its early returns
filterCallback(project, searchQ, selDomains, selTypes) ==
  IF searchQ # <<>> /\ ~matchesSearch(project, searchQ) THEN FALSE
  ELSE IF Cardinality(selDomains) > 0 /\ project.domain \notin selDomains
    THEN FALSE
  ELSE IF Cardinality(selTypes) > 0 /\ ~hasMatchingType(project, selTypes)
    THEN FALSE
  ELSE TRUE

\* Array.prototype.filter: visit in index order, push the accepted elements
RECURSIVE filterFrom(_, _, _, _, _, _)
filterFrom(list, i, acc, searchQ, selDomains, selTypes) ==
  IF i > Len(list) THEN acc
  ELSE filterFrom(list, i + 1,
         IF filterCallback(list[i], searchQ, selDomains, selTypes)
           THEN Append(acc, list[i]) ELSE acc,
         searchQ, selDomains, selTypes)

filteredProjects ==
  filterFrom(projects, 1, <<>>, searchQuery, selectedDomains, selectedTypes)

\* ------------------------------------------------------------- initial state
\* type ThemeName
ThemeNames ==
  {"cyber", "security", "tech", "blue", "green", "orange", "red", "purple"}

\* type ColorMode
ColorModes == {"light", "dark"}

\* what localStorage may hold when the page loads
Stores ==
  [theme : {<<>>} \cup { <<n>> : n \in ThemeNames },
   colorMode : {<<>>} \cup { <<m>> : m \in ColorModes }]

EmptyStore == [theme |-> <<>>, colorMode |-> <<>>]

\* useState initial values of ThemeProvider
InitThemeVars(stores, works) ==
  /\ themeName = "security"
  /\ colorMode = "dark"
  /\ mounted = FALSE
  /\ storage \in stores
  /\ storageWorks \in works

\* the rotating taglines of the hero section
taglines ==
  <<"Building secure systems", "Automating security workflows",
    "Bridging dev & security">>

\* useState initial value of Hero
InitHeroVars ==
  /\ currentTagline = 0
  /\ ticks = 0

\* useState initial value of ContactSection
InitContactVars(configs) ==
  /\ status = "idle"
  /\ emailConfigured \in configs
  /\ inFlight = 0
  /\ simulations = 0
  /\ resetTimers = 0

InitState(catalogs, hosts) ==
  /\ projects \in catalogs
  /\ host \in hosts
  /\ cliOpen = FALSE
  /\ selectedProject = <<>>
  /\ searchQuery = <<>>
  /\ selectedDomains = {}
  /\ selectedTypes = {}
  /\ commandHistory = <<>>
  /\ currentInput = <<>>
  /\ commandIndex = -1
  /\ event = "mount"
  /\ navCalled = <<>>
  /\ closeCalled = 0
  /\ thrown = FALSE
  /\ InitThemeVars({EmptyStore}, {TRUE})
  /\ InitHeroVars
  /\ InitContactVars({TRUE})

\* ------------------------------------------------------ home page handlers
\* text the visitor types into the search box
Queries ==
  { <<>>,
    <<"r","e","a","c","t">>,
    <<"R","E","A","C","T">>,
    <<"k","i","t">>,
    <<"P","y","t","h","o","n">>,
    <<"u","i","/","u","x">>,
    <<"z","z">> }

Handled(name) ==
  /\ event' = name
  /\ navCalled' = <<>>
  /\ closeCalled' = 0
  /\ thrown' = FALSE

\* variant: the search box filters the catalog in place
setSearchQueryFiltersInPlace ==
  /\ host = "Home"
  /\ \E q \in Queries :
       /\ searchQuery' = q
       /\ projects' = filterFrom(projects, 1, <<>>, q, {}, {})
  /\ Handled("page")
  /\ UNCHANGED <<siteVars, host, cliOpen, selectedProject, selectedDomains,
                 selectedTypes, widgetVars>>

setSearchQuery ==
  /\ host = "Home"
  /\ \E q \in Queries : searchQuery' = q
  /\ Handled("page")
  /\ UNCHANGED <<siteVars, projects, host, cliOpen, selectedProject, selectedDomains,
                 selectedTypes, widgetVars>>

toggleDomain ==
  /\ host = "Home"
  /\ \E i \in 1..Len(domains) :
       /\ domains[i] \notin selectedDomains
            => Cardinality(selectedDomains) < MaxSelected
       /\ selectedDomains' =
            IF domains[i] \in selectedDomains
              THEN selectedDomains \ {domains[i]}
              ELSE selectedDomains \cup {domains[i]}
  /\ Handled("page")
  /\ UNCHANGED <<siteVars, projects, host, cliOpen, selectedProject, searchQuery,
                 selectedTypes, widgetVars>>

toggleType ==
  /\ host = "Home"
  /\ \E i \in 1..Len(types) :
       /\ types[i] \notin selectedTypes
            => Cardinality(selectedTypes) < MaxSelected
       /\ selectedTypes' =
            IF types[i] \in selectedTypes
              THEN selectedTypes \ {types[i]}
              ELSE selectedTypes \cup {types[i]}
  /\ Handled("page")
  /\ UNCHANGED <<siteVars, projects, host, cliOpen, selectedProject, searchQuery,
                 selectedDomains, widgetVars>>

clearFilters ==
  /\ host = "Home"
  /\ searchQuery' = <<>>
  /\ selectedDomains' = {}
  /\ selectedTypes' = {}
  /\ Handled("page")
  /\ UNCHANGED <<siteVars, projects, host, cliOpen, selectedProject, widgetVars>>

InitFilter == InitState(Catalogs, {"Home"})

NextFilter == setSearchQuery \/ toggleDomain \/ toggleType \/ clearFilters

SpecFilter == InitFilter /\ [][NextFilter]_vars

\* ------------------------------------------------------- the terminal widget
helpName == <<"h","e","l","p">>
lsName == <<"l","s">>
catName == <<"c","a","t">>
filterName == <<"f","i","l","t","e","r">>
searchName == <<"s","e","a","r","c","h">>
clearName == <<"c","l","e","a","r">>
exitName == <<"e","x","i","t">>
openName == <<"o","p","e","n">>

\* the keys of the COMMANDS object literal
CommandNames ==
  { helpName, lsName, catName, filterName, searchName, clearName, exitName,
    openName }

\* the property names every object literal inherits from Object.prototype
ObjectPrototypeKeys ==
  { <<"c","o","n","s","t","r","u","c","t","o","r">>,
    <<"_","_","p","r","o","t","o","_","_">>,
    <<"h","a","s","O","w","n","P","r","o","p","e","r","t","y">>,
    <<"i","s","P","r","o","t","o","t","y","p","e","O","f">>,
    <<"p","r","o","p","e","r","t","y","I","s","E","n","u","m","e","r","a","b","l","e">>,
    <<"t","o","S","t","r","i","n","g">>,
    <<"v","a","l","u","e","O","f">>,
    <<"t","o","L","o","c","a","l","e","S","t","r","i","n","g">>,
    <<"_","_","d","e","f","i","n","e","G","e","t","t","e","r","_","_">>,
    <<"_","_","d","e","f","i","n","e","S","e","t","t","e","r","_","_">>,
    <<"_","_","l","o","o","k","u","p","G","e","t","t","e","r","_","_">>,
    <<"_","_","l","o","o","k","u","p","S","e","t","t","e","r","_","_">> }

\* COMMANDS[cmd]: an own handler, an inherited member, or undefined
commandHandler(cmd) ==
  IF cmd \in CommandNames THEN "own"
  ELSE IF cmd \in ObjectPrototypeKeys THEN "inherited"
  ELSE "undefined"

\* projects.find(p => p.id === query || p.title.toLowerCase().includes(...)):
\* the first project, in catalog order, for which either test holds
findProject(query) ==
  LET hits == { i \in 1..Len(projects) :
                  \/ projects[i].id = query
                  \/ includes(toLowerCase(projects[i].title),
                              toLowerCase(query)) }
  IN  IF hits = {} THEN <<>>
      ELSE <<projects[CHOOSE i \in hits : \A j \in hits : i <= j]>>

\* a rendered output: what is shown, its variable text, its list rows; an
\* entry's timestamp is written once and never read, and is left out
Out(kind, text, rows) == [kind |-> kind, text |-> text, rows |-> rows]

NullOutput == Out("null", <<>>, <<>>)

welcomeEntry ==
  [command |-> <<"w","e","l","c","o","m","e">>, output |-> Out("welcome", <<>>, <<>>)]

renderProjectList(projectList, title) ==
  Out("list", title,
      [i \in 1..Len(projectList) |->
         [n |-> i,
          id |-> projectList[i].id,
          title |-> projectList[i].title,
          domain |-> projectList[i].domain,
          featured |-> projectList[i].featured]])

\* !args[0]: no first argument, or an empty one
noFirstArg(args) == args = <<>> \/ args[1] = <<>>

helpExecute(args) == Out("help", <<>>, <<>>)

\* variant: only the featured projects are listed
lsExecuteFeaturedOnly(args) ==
  LET Featured(p) == p.featured
  IN  renderProjectList(SelectSeq(projects, Featured), <<"P","r","o","j","e","c","t","s">>)

lsExecute(args) == renderProjectList(projects, <<"P","r","o","j","e","c","t","s">>)

catExecute(args) ==
  IF noFirstArg(args) THEN Out("usage", catName, <<>>)
  ELSE LET project == findProject(args[1])
       IN  IF project = <<>> THEN Out("notFoundUseLs", <<>>, <<>>)
           ELSE Out("details", project[1].id, <<>>)

\* variant: the typed token is compared as typed, letter case included
filterExecuteExactCase(args) ==
  IF noFirstArg(args) THEN Out("usage", filterName, <<>>)
  ELSE LET domain == <<ToUpperChar(args[1][1])>> \o toLowerCase(Tail(args[1]))
           Keep(p) == p.domain = args[1]
           filtered == SelectSeq(projects, Keep)
       IN  IF Len(filtered) = 0 THEN Out("noDomain", domain, <<>>)
           ELSE renderProjectList(filtered, <<"P","r","o","j","e","c","t","s"," ","i","n"," ">> \o domain)

\* variant: all the argument tokens name the domain
filterExecuteAllTokens(args) ==
  IF noFirstArg(args) THEN Out("usage", filterName, <<>>)
  ELSE LET typed == join(args)
           domain == <<ToUpperChar(typed[1])>> \o toLowerCase(Tail(typed))
           Keep(p) == toLowerCase(p.domain) = toLowerCase(domain)
           filtered == SelectSeq(projects, Keep)
       IN  IF Len(filtered) = 0 THEN Out("noDomain", domain, <<>>)
           ELSE renderProjectList(filtered, <<"P","r","o","j","e","c","t","s"," ","i","n"," ">> \o domain)

filterExecute(args) ==
  IF noFirstArg(args) THEN Out("usage", filterName, <<>>)
  ELSE LET domain == <<ToUpperChar(args[1][1])>> \o toLowerCase(Tail(args[1]))
           Keep(p) == toLowerCase(p.domain) = toLowerCase(domain)
           filtered == SelectSeq(projects, Keep)
       IN  IF Len(filtered) = 0 THEN Out("noDomain", domain, <<>>)
           ELSE renderProjectList(filtered, <<"P","r","o","j","e","c","t","s"," ","i","n"," ">> \o domain)

\* variant: only the title is searched
searchExecuteTitleOnly(args) ==
  IF noFirstArg(args) THEN Out("usage", searchName, <<>>)
  ELSE LET query == toLowerCase(join(args))
           Keep(p) == includes(toLowerCase(p.title), query)
           filtered == SelectSeq(projects, Keep)
       IN  IF Len(filtered) = 0 THEN Out("noMatch", query, <<>>)
           ELSE renderProjectList(filtered, <<"S","e","a","r","c","h"," ","r","e","s","u","l","t","s">>)

searchExecute(args) ==
  IF noFirstArg(args) THEN Out("usage", searchName, <<>>)
  ELSE LET query == toLowerCase(join(args))
           Keep(p) ==
             \/ includes(toLowerCase(p.title), query)
             \/ includes(toLowerCase(p.description), query)
             \/ \E i \in 1..Len(p.techStack) :
                  includes(toLowerCase(p.techStack[i]), query)
           filtered == SelectSeq(projects, Keep)
       IN  IF Len(filtered) = 0 THEN Out("noMatch", query, <<>>)
           ELSE renderProjectList(filtered, <<"S","e","a","r","c","h"," ","r","e","s","u","l","t","s">>)

clearExecute(args) == NullOutput

exitExecute(args) == NullOutput

openExecute(args) ==
  IF noFirstArg(args) THEN Out("usage", openName, <<>>)
  ELSE LET project == findProject(args[1])
       IN  IF project = <<>> THEN Out("notFoundUseLs", <<>>, <<>>)
           ELSE Out("opening", project[1].title, <<>>)

\* commandHandler.execute(args) for an own handler
execute(cmd, args) ==
  CASE cmd = helpName -> helpExecute(args)
    [] cmd = lsName -> lsExecute(args)
    [] cmd = catName -> catExecute(args)
    [] cmd = filterName -> filterExecute(args)
    [] cmd = searchName -> searchExecute(args)
    [] cmd = clearName -> clearExecute(args)
    [] cmd = exitName -> exitExecute(args)
    [] cmd = openName -> openExecute(args)

\* what one run of executeCommand does: the new history, the ids handed to
\* onNavigateToProject, the number of onClose calls, and whether it threw
Effect(history, nav, close, threw) ==
  [history |-> history, nav |-> nav, close |-> close, threw |-> threw]

\* variant: the callback is handed the typed argument, not project.id
openWithArgTypedText(trimmed, args) ==
  LET project == findProject(args[1])
      entry(output) == [command |-> trimmed, output |-> output]
  IN  IF project # <<>>
        THEN Effect(Append(commandHistory,
                           entry(Out("opening", project[1].title, <<>>))),
                    <<args[1]>>, 0, FALSE)
        ELSE Effect(Append(commandHistory, entry(Out("notFound", <<>>, <<>>))),
                    <<>>, 0, FALSE)

\* variant: the callback is invoked before the lookup result is tested
openWithArgNavigatesFirst(trimmed, args) ==
  LET project == findProject(args[1])
      entry(output) == [command |-> trimmed, output |-> output]
  IN  IF project # <<>>
        THEN Effect(Append(commandHistory,
                           entry(Out("opening", project[1].title, <<>>))),
                    <<project[1].id>>, 0, FALSE)
        ELSE Effect(Append(commandHistory, entry(Out("notFound", <<>>, <<>>))),
                    <<args[1]>>, 0, FALSE)

\* executeCommand's branch for `open` with a first argument
openWithArg(trimmed, args) ==
  LET project == findProject(args[1])
      entry(output) == [command |-> trimmed, output |-> output]
  IN  IF project # <<>>
        THEN Effect(Append(commandHistory,
                           entry(Out("opening", project[1].title, <<>>))),
                    <<project[1].id>>, 0, FALSE)
        ELSE Effect(Append(commandHistory, entry(Out("notFound", <<>>, <<>>))),
                    <<>>, 0, FALSE)

\* variant: clearing leaves the welcome entry in place
clearedHistoryKeepsWelcome == <<welcomeEntry>>

\* setCommandHistory([]) of the `clear` branch
clearedHistory == <<>>

\* variant: the emptiness test looks at the line before trimming
executeCommandChecksRawInput(input) ==
  LET trimmed == trim(input)
      parts == split(trimmed)
      command == parts[1]
      args == Tail(parts)
      cmd == toLowerCase(command)
      entry(output) == [command |-> trimmed, output |-> output]
  IN  IF input = <<>> THEN Effect(commandHistory, <<>>, 0, FALSE)
      ELSE IF cmd = exitName THEN Effect(commandHistory, <<>>, 1, FALSE)
      ELSE IF cmd = clearName THEN Effect(clearedHistory, <<>>, 0, FALSE)
      ELSE IF cmd = openName /\ ~noFirstArg(args) THEN openWithArg(trimmed, args)
      ELSE IF commandHandler(cmd) = "undefined" THEN
        Effect(Append(commandHistory, entry(Out("commandNotFound", cmd, <<>>))),
               <<>>, 0, FALSE)
      ELSE IF commandHandler(cmd) = "inherited" THEN
        \* an inherited member has no execute: the call is a TypeError
        Effect(commandHistory, <<>>, 0, TRUE)
      ELSE
        LET output == execute(cmd, args)
        IN  IF output # NullOutput
              THEN Effect(Append(commandHistory, entry(output)), <<>>, 0, FALSE)
              ELSE Effect(commandHistory, <<>>, 0, FALSE)

executeCommand(input) ==
  LET trimmed == trim(input)
      parts == split(trimmed)
      command == parts[1]
      args == Tail(parts)
      cmd == toLowerCase(command)
      entry(output) == [command |-> trimmed, output |-> output]
  IN  IF trimmed = <<>> THEN Effect(commandHistory, <<>>, 0, FALSE)
      ELSE IF cmd = exitName THEN Effect(commandHistory, <<>>, 1, FALSE)
      ELSE IF cmd = clearName THEN Effect(clearedHistory, <<>>, 0, FALSE)
      ELSE IF cmd = openName /\ ~noFirstArg(args) THEN openWithArg(trimmed, args)
      ELSE IF commandHandler(cmd) = "undefined" THEN
        Effect(Append(commandHistory, entry(Out("commandNotFound", cmd, <<>>))),
               <<>>, 0, FALSE)
      ELSE IF commandHandler(cmd) = "inherited" THEN
        \* an inherited member has no execute: the call is a TypeError
        Effect(commandHistory, <<>>, 0, TRUE)
      ELSE
        LET output == execute(cmd, args)
        IN  IF output # NullOutput
              THEN Effect(Append(commandHistory, entry(output)), <<>>, 0, FALSE)
              ELSE Effect(commandHistory, <<>>, 0, FALSE)

\* variant: the host selects the first project of the catalog
navigationTargetFirstProject(projectId) ==
  IF projects = <<>> THEN <<>> ELSE <<projects[1]>>

\* the hosts' handleNavigateToProject: projects.find(p => p.id === projectId)
navigationTarget(projectId) ==
  LET hits == { i \in 1..Len(projects) : projects[i].id = projectId }
  IN  IF hits = {} THEN <<>>
      ELSE <<projects[CHOOSE i \in hits : \A j \in hits : i <= j]>>

\* variant: the history of the earlier session is kept when there is one
OpenCLIKeepsHistory ==
  /\ ~cliOpen
  /\ cliOpen' = TRUE
  /\ commandHistory' =
       IF commandHistory = <<>> THEN <<welcomeEntry>> ELSE commandHistory
  /\ Handled("open")
  /\ UNCHANGED <<siteVars, projects, host, selectedProject, pageVars, currentInput,
                 commandIndex>>

\* the host's button: setCliOpen(true), then the widget's effect on isOpen
OpenCLI ==
  /\ ~cliOpen
  /\ cliOpen' = TRUE
  /\ commandHistory' = <<welcomeEntry>>
  /\ Handled("open")
  /\ UNCHANGED <<siteVars, projects, host, selectedProject, pageVars, currentInput,
                 commandIndex>>

\* the backdrop and the two close buttons: onClose
CloseCLI ==
  /\ cliOpen
  /\ cliOpen' = FALSE
  /\ event' = "close"
  /\ navCalled' = <<>>
  /\ closeCalled' = 1
  /\ thrown' = FALSE
  /\ UNCHANGED <<siteVars, projects, host, selectedProject, pageVars, widgetVars>>

\* onChange of the input field
Type(text) ==
  /\ cliOpen
  /\ currentInput' = text
  /\ Handled("type")
  /\ UNCHANGED <<siteVars, projects, host, cliOpen, selectedProject, pageVars,
                 commandHistory, commandIndex>>

\* variant: a new entry is put in front of the history
EnterPrependsEntry ==
  /\ cliOpen
  /\ LET done == executeCommand(currentInput)
         target == IF done.nav = <<>> THEN <<>>
                   ELSE navigationTarget(done.nav[1])
     IN  /\ event' = "Enter"
         /\ navCalled' = done.nav
         /\ closeCalled' = done.close
         /\ thrown' = done.threw
         /\ IF done.threw
              THEN UNCHANGED <<cliOpen, selectedProject, widgetVars>>
              ELSE /\ commandHistory' =
                        IF Len(done.history) = Len(commandHistory) + 1
                          THEN <<done.history[Len(done.history)]>>
                                 \o commandHistory
                          ELSE done.history
                   /\ currentInput' = <<>>
                   /\ commandIndex' = -1
                   /\ cliOpen' = (done.close = 0 /\ target = <<>>)
                   /\ selectedProject' =
                        IF target # <<>> /\ host = "Home" THEN target
                        ELSE selectedProject
  /\ UNCHANGED <<siteVars, projects, host, pageVars>>

\* handleKeyDown, key Enter
Enter ==
  /\ cliOpen
  /\ LET done == executeCommand(currentInput)
         target == IF done.nav = <<>> THEN <<>>
                   ELSE navigationTarget(done.nav[1])
     IN  /\ event' = "Enter"
         /\ navCalled' = done.nav
         /\ closeCalled' = done.close
         /\ thrown' = done.threw
         /\ IF done.threw
              THEN UNCHANGED <<cliOpen, selectedProject, widgetVars>>
              ELSE /\ commandHistory' = done.history
                   /\ currentInput' = <<>>
                   /\ commandIndex' = -1
                   /\ cliOpen' = (done.close = 0 /\ target = <<>>)
                   /\ selectedProject' =
                        IF target # <<>> /\ host = "Home" THEN target
                        ELSE selectedProject
  /\ UNCHANGED <<siteVars, projects, host, pageVars>>

\* handleKeyDown, key ArrowUp
ArrowUp ==
  /\ cliOpen
  /\ IF Len(commandHistory) > 0
       THEN LET newIndex == IF commandIndex = -1
                              THEN Len(commandHistory) - 1
                              ELSE IF commandIndex - 1 > 0
                                     THEN commandIndex - 1 ELSE 0
                \* commandHistory[newIndex]?.command, undefined past the end
                recalled == IF newIndex + 1 <= Len(commandHistory)
                              THEN commandHistory[newIndex + 1].command
                              ELSE <<>>
            IN  /\ commandIndex' = newIndex
                /\ currentInput' =
                     IF recalled # <<>> /\ recalled # welcomeEntry.command
                       THEN recalled ELSE currentInput
       ELSE UNCHANGED <<commandIndex, currentInput>>
  /\ Handled("ArrowUp")
  /\ UNCHANGED <<siteVars, projects, host, cliOpen, selectedProject, pageVars,
                 commandHistory>>

\* variant: the buffer is filled from the entry the cursor is leaving
ArrowDownStaleEntry ==
  /\ cliOpen
  /\ IF commandIndex >= 0
       THEN LET newIndex == commandIndex + 1
            IN  IF newIndex >= Len(commandHistory)
                  THEN /\ commandIndex' = -1
                       /\ currentInput' = <<>>
                  ELSE /\ commandIndex' = newIndex
                       /\ currentInput' = commandHistory[newIndex].command
       ELSE UNCHANGED <<commandIndex, currentInput>>
  /\ Handled("ArrowDown")
  /\ UNCHANGED <<siteVars, projects, host, cliOpen, selectedProject, pageVars,
                 commandHistory>>

\* handleKeyDown, key ArrowDown
ArrowDown ==
  /\ cliOpen
  /\ IF commandIndex >= 0
       THEN LET newIndex == commandIndex + 1
            IN  IF newIndex >= Len(commandHistory)
                  THEN /\ commandIndex' = -1
                       /\ currentInput' = <<>>
                  ELSE /\ commandIndex' = newIndex
                       /\ currentInput' = commandHistory[newIndex + 1].command
       ELSE UNCHANGED <<commandIndex, currentInput>>
  /\ Handled("ArrowDown")
  /\ UNCHANGED <<siteVars, projects, host, cliOpen, selectedProject, pageVars,
                 commandHistory>>

\* variant: the Escape key is ignored
EscapeWithoutClose ==
  /\ cliOpen
  /\ event' = "Escape"
  /\ navCalled' = <<>>
  /\ closeCalled' = 0
  /\ thrown' = FALSE
  /\ UNCHANGED <<siteVars, projects, host, cliOpen, selectedProject, pageVars,
                 widgetVars>>

\* handleKeyDown, key Escape
Escape ==
  /\ cliOpen
  /\ cliOpen' = FALSE
  /\ event' = "Escape"
  /\ navCalled' = <<>>
  /\ closeCalled' = 1
  /\ thrown' = FALSE
  /\ UNCHANGED <<siteVars, projects, host, selectedProject, pageVars, widgetVars>>

\* lines the visitor may type in the command model
Lines ==
  { <<>>,
    <<" "," ">>,
    <<"h","e","l","p">>,
    <<"c","a","t">>,
    <<"c","a","t"," ","l","o","c","k","-","a","n","d","-","k","e","y">>,
    <<"c","a","t"," ","n","o","n","e","x","i","s","t","e","n","t","-","i","d">>,
    <<"o","p","e","n">>,
    <<"o","p","e","n"," ","L","O","C","K">>,
    <<"o","p","e","n"," ","n","o","n","e","x","i","s","t","e","n","t","-","i","d">>,
    <<"f","i","l","t","e","r">>,
    <<"f","i","l","t","e","r"," ","s","e","c","u","r","i","t","y">>,
    <<"f","i","l","t","e","r"," ","z","z","z">>,
    <<"s","e","a","r","c","h">>,
    <<"s","e","a","r","c","h"," ","R","E","A","C","T">>,
    <<"s","e","a","r","c","h"," ","z","z","z">>,
    <<"E","X","I","T"," ","n","o","w">>,
    <<"F","o","o","B","a","r"," ","x">>,
    <<"c","o","n","s","t","r","u","c","t","o","r">>,
    <<"_","_","p","r","o","t","o","_","_">> }

\* lines the visitor may type in the lookup model
LookupLines ==
  { <<"c","a","t">>,
    <<"c","a","t"," ","b","o","x">>,
    <<"o","p","e","n"," ","b","o","x">>,
    <<"o","p","e","n"," ","B","O","X">>,
    <<"c","a","t"," ","k","i","t">>,
    <<"o","p","e","n"," ","z","z","z">>,
    <<"c","a","t"," ","z","z","z">>,
    <<"o","p","e","n"," ","l","o","c","k","-","a","n","d","-","k","e","y">> }

\* lines the visitor may type in the recall model
RecallLines ==
  { <<"l","s">>,
    <<" ","l","s"," "," ">>,
    <<"h","e","l","p">>,
    <<"w","e","l","c","o","m","e">>,
    <<"c","l","e","a","r">> }

\* ---------------------------------------------------------- specifications
\* the command model: the commands and their failure paths, against the
\* shipped catalog
TypeLine == \E text \in Lines : Type(text)

EnterLine == Len(commandHistory) < MaxEntries /\ Enter

InitCLI == InitState({RealCatalog}, {"Home", "CLIToggle"})

NextCLI == OpenCLI \/ TypeLine \/ EnterLine

SpecCLI == InitCLI /\ [][NextCLI]_vars

\* the lookup model: cat and open against every catalog
TypeLookup == \E text \in LookupLines : Type(text)

EnterLookup == Len(commandHistory) < MaxEntries /\ Enter

InitLookup == InitState(Catalogs, {"Home"})

NextLookup == OpenCLI \/ TypeLookup \/ EnterLookup

SpecLookup == InitLookup /\ [][NextLookup]_vars

\* lines the visitor may type in the query model
QueryLines ==
  { <<"f","i","l","t","e","r"," ","s","e","c","u","r","i","t","y">>,
    <<"f","i","l","t","e","r"," ","S","E","C","U","R","I","T","Y">>,
    <<"f","i","l","t","e","r"," ","r","e","s","e","a","r","c","h">>,
    <<"f","i","l","t","e","r"," ","z","z","z">>,
    <<"s","e","a","r","c","h"," ","R","E","A","C","T">>,
    <<"s","e","a","r","c","h"," ","s","c","a","n">>,
    <<"s","e","a","r","c","h"," ","k","i","t">>,
    <<"s","e","a","r","c","h"," ","d","a","t","a"," ","p","i","p","e","l","i","n","e">>,
    <<"s","e","a","r","c","h"," ","z","z","z">>,
    <<"l","s">>,
    <<"L","S">>,
    <<"f","i","l","t","e","r"," ","s","e","c","u","r","i","t","y"," ","n","o","w">>,
    <<"f","i","l","t","e","r"," ","d","a","t","a"," ","e","n","g","i","n","e","e","r","i","n","g">>,
    <<"f","i","l","t","e","r"," ","d","a","t","a">> }

\* the query model: `ls`, `filter` and `search` over every catalog
TypeQuery == \E text \in QueryLines : Type(text)

EnterQuery == Len(commandHistory) < MaxEntries /\ Enter

InitQuery == InitState(Catalogs, {"Home"})

NextQuery == OpenCLI \/ TypeQuery \/ EnterQuery

SpecQuery == InitQuery /\ [][NextQuery]_vars

\* lines the visitor may type in the closing model
ExitLines ==
  { <<"e","x","i","t">>,
    <<"E","X","I","T"," ","n","o","w">>,
    <<"e","x","i","t"," ","n","o","w"," ","p","l","e","a","s","e">>,
    <<"h","e","l","p">>,
    <<"l","s">> }

\* the closing model: `exit` and the Escape key, in both hosts
TypeExit == \E text \in ExitLines : Type(text)

EnterExit == Len(commandHistory) < MaxHistory /\ Enter

InitExit == InitState({RealCatalog}, {"Home", "CLIToggle"})

NextExit == OpenCLI \/ TypeExit \/ EnterExit \/ Escape

SpecExit == InitExit /\ [][NextExit]_vars

\* lines the visitor may type in the catalog model
CatalogLines ==
  { <<"c","l","e","a","r">>,
    <<"s","e","a","r","c","h"," ","r","e","a","c","t">> }

\* search texts of the catalog model
CatalogQueries == { <<>>, <<"r","e","a","c","t">> }

\* the catalog model keeps the page's filter state small
FewFilters ==
  /\ searchQuery \in CatalogQueries
  /\ Cardinality(selectedDomains) + Cardinality(selectedTypes) <= MaxChips

\* the catalog model: the page's filter handlers interleaved with the widget
TypeCatalog == \E text \in CatalogLines : Type(text)

EnterCatalog == Len(commandHistory) < MaxEntries /\ Enter

InitCatalog == InitState({RealCatalog}, {"Home"})

NextCatalog ==
  \/ (setSearchQuery /\ FewFilters')
  \/ (toggleDomain /\ FewFilters')
  \/ (toggleType /\ FewFilters')
  \/ clearFilters
  \/ OpenCLI \/ CloseCLI \/ TypeCatalog \/ EnterCatalog \/ ArrowUp
  \/ ArrowDown \/ Escape

SpecCatalog == InitCatalog /\ [][NextCatalog]_vars

\* the recall model: few lines, longer histories, the arrow keys
TypeRecall == \E text \in RecallLines : Type(text)

EnterRecall == Len(commandHistory) < MaxHistory /\ Enter

InitRecall == InitState({RealCatalog}, {"Home"})

NextRecall ==
  OpenCLI \/ CloseCLI \/ TypeRecall \/ EnterRecall \/ ArrowUp \/ ArrowDown
    \/ Escape

SpecRecall == InitRecall /\ [][NextRecall]_vars

\* lines the visitor may type in the parsing model
ParseLines ==
  { <<"h","e","l","p">>,
    <<" "," ","H","e","l","p"," ">>,
    <<"c","a","t"," ","l","o","c","k","-","a","n","d","-","k","e","y">>,
    <<"c","a","t"," "," ","l","o","c","k","-","a","n","d","-","k","e","y">>,
    <<"C","A","T"," ","l","o","c","k","-","a","n","d","-","k","e","y">>,
    <<"c","a","t","\t","l","o","c","k","-","a","n","d","-","k","e","y">>,
    <<"o","p","e","n"," "," ","h","o","g","w","a","r","t","s">>,
    <<"o","p","e","n"," ","h","o","g","w","a","r","t","s">>,
    <<"s","e","a","r","c","h"," "," ","r","e","a","c","t">>,
    <<"s","e","a","r","c","h"," ","r","e","a","c","t">> }

\* the parsing model: lines that differ in spacing and in letter case
TypeParse == \E text \in ParseLines : Type(text)

EnterParse == Len(commandHistory) < MaxEntries /\ Enter

InitParse == InitState({RealCatalog}, {"Home"})

NextParse == OpenCLI \/ TypeParse \/ EnterParse

SpecParse == InitParse /\ [][NextParse]_vars

\* ------------------------------------------------------ the theme provider
\* localStorage.setItem('theme', ...) and setItem('colorMode', ...) inside try
saveTheme(name, mode) ==
  IF storageWorks THEN [theme |-> <<name>>, colorMode |-> <<mode>>]
  ELSE storage

\* first commit: the mount effect reads the saved values, then the effect on
\* [themeName, colorMode, mounted] runs again with mounted true and saves
MountThemeProvider ==
  /\ ~mounted
  /\ mounted' = TRUE
  /\ LET savedTheme == IF storageWorks THEN storage.theme ELSE <<>>
         savedColorMode == IF storageWorks THEN storage.colorMode ELSE <<>>
         name == IF savedTheme # <<>> THEN savedTheme[1] ELSE themeName
         mode == IF savedColorMode # <<>> THEN savedColorMode[1] ELSE colorMode
     IN  /\ themeName' = name
         /\ colorMode' = mode
         /\ storage' = saveTheme(name, mode)
  /\ Handled("mountTheme")
  /\ UNCHANGED <<storageWorks, portfolioVars, heroVars, contactVars>>

\* setThemeName, then the effect when the name changed
setThemeName(theme) ==
  /\ mounted
  /\ themeName' = theme
  /\ storage' = IF theme # themeName THEN saveTheme(theme, colorMode)
                ELSE storage
  /\ Handled("setThemeName")
  /\ UNCHANGED <<colorMode, mounted, storageWorks, portfolioVars, heroVars,
                 contactVars>>

\* variant: colorMode is missing from the effect's dependency list
toggleColorModeStaleDeps ==
  /\ mounted
  /\ colorMode' = IF colorMode = "dark" THEN "light" ELSE "dark"
  /\ Handled("toggleColorMode")
  /\ UNCHANGED <<themeName, mounted, storage, storageWorks, portfolioVars,
                 heroVars, contactVars>>

\* toggleColorMode, then the effect
toggleColorMode ==
  /\ mounted
  /\ colorMode' = IF colorMode = "dark" THEN "light" ELSE "dark"
  /\ storage' = saveTheme(themeName, colorMode')
  /\ Handled("toggleColorMode")
  /\ UNCHANGED <<themeName, mounted, storageWorks, portfolioVars, heroVars,
                 contactVars>>

\* a click on one of the theme buttons
SelectTheme == \E theme \in ThemeNames : setThemeName(theme)

InitTheme ==
  /\ projects = RealCatalog
  /\ host = "Home"
  /\ cliOpen = FALSE
  /\ selectedProject = <<>>
  /\ searchQuery = <<>>
  /\ selectedDomains = {}
  /\ selectedTypes = {}
  /\ commandHistory = <<>>
  /\ currentInput = <<>>
  /\ commandIndex = -1
  /\ event = "mount"
  /\ navCalled = <<>>
  /\ closeCalled = 0
  /\ thrown = FALSE
  /\ InitThemeVars(Stores, BOOLEAN)
  /\ InitHeroVars
  /\ InitContactVars({TRUE})

NextTheme == MountThemeProvider \/ SelectTheme \/ toggleColorMode

SpecTheme == InitTheme /\ [][NextTheme]_vars

\* ------------------------------------------------------------ the hero section
\* variant: the index is incremented without wrapping
TaglineTickWithoutWrap ==
  /\ ticks < MaxTicks
  /\ currentTagline' = currentTagline + 1
  /\ ticks' = ticks + 1
  /\ Handled("tick")
  /\ UNCHANGED <<portfolioVars, themeVars, contactVars>>

\* the setInterval callback, every 3000 ms
TaglineTick ==
  /\ ticks < MaxTicks
  /\ currentTagline' = (currentTagline + 1) % Len(taglines)
  /\ ticks' = ticks + 1
  /\ Handled("tick")
  /\ UNCHANGED <<portfolioVars, themeVars, contactVars>>

InitHero == InitState({RealCatalog}, {"Home"})

NextHero == TaglineTick

SpecHero == InitHero /\ [][NextHero]_vars

\* ------------------------------------------------------ the contact form
\* handleSubmit up to its first suspension; the button is disabled while
\* the status is 'sending'
handleSubmit ==
  /\ status # "sending"
  /\ inFlight + simulations < MaxSends
  /\ status' = "sending"
  /\ IF emailConfigured
       THEN inFlight' = inFlight + 1 /\ UNCHANGED simulations
       ELSE simulations' = simulations + 1 /\ UNCHANGED inFlight
  /\ Handled("submit")
  /\ UNCHANGED <<emailConfigured, resetTimers, portfolioVars, themeVars,
                 heroVars>>

\* emailjs.send resolved: the rest of the try block
SendResolves ==
  /\ inFlight > 0
  /\ resetTimers < MaxTimers
  /\ inFlight' = inFlight - 1
  /\ status' = "success"
  /\ resetTimers' = resetTimers + 1
  /\ Handled("resolved")
  /\ UNCHANGED <<emailConfigured, simulations, portfolioVars, themeVars,
                 heroVars>>

\* emailjs.send rejected: the catch block
SendRejects ==
  /\ inFlight > 0
  /\ resetTimers < MaxTimers
  /\ inFlight' = inFlight - 1
  /\ status' = "error"
  /\ resetTimers' = resetTimers + 1
  /\ Handled("rejected")
  /\ UNCHANGED <<emailConfigured, simulations, portfolioVars, themeVars,
                 heroVars>>

\* the 1000 ms timer of the fallback simulation
SimulationFires ==
  /\ simulations > 0
  /\ resetTimers < MaxTimers
  /\ simulations' = simulations - 1
  /\ status' = "success"
  /\ resetTimers' = resetTimers + 1
  /\ Handled("simulated")
  /\ UNCHANGED <<emailConfigured, inFlight, portfolioVars, themeVars,
                 heroVars>>

\* a timer set after a success (3000 ms) or an error (5000 ms)
ResetTimerFires ==
  /\ resetTimers > 0
  /\ resetTimers' = resetTimers - 1
  /\ status' = "idle"
  /\ Handled("reset")
  /\ UNCHANGED <<emailConfigured, inFlight, simulations, portfolioVars,
                 themeVars, heroVars>>

InitContact ==
  /\ projects = RealCatalog
  /\ host = "Home"
  /\ cliOpen = FALSE
  /\ selectedProject = <<>>
  /\ searchQuery = <<>>
  /\ selectedDomains = {}
  /\ selectedTypes = {}
  /\ commandHistory = <<>>
  /\ currentInput = <<>>
  /\ commandIndex = -1
  /\ event = "mount"
  /\ navCalled = <<>>
  /\ closeCalled = 0
  /\ thrown = FALSE
  /\ InitThemeVars({EmptyStore}, {TRUE})
  /\ InitHeroVars
  /\ InitContactVars(BOOLEAN)

NextContact ==
  handleSubmit \/ SendResolves \/ SendRejects \/ SimulationFires
    \/ ResetTimerFires

SpecContact == InitContact /\ [][NextContact]_vars

\* ------------------------------------------------ properties of the filter
\* q occurs in s when letter case is ignored, stated character by character
IContains(s, q) ==
  \E off \in 0..(Len(s) - Len(q)) :
    \A k \in 1..Len(q) : ToLowerChar(s[off + k]) = ToLowerChar(q[k])

QueryHolds(p, q) ==
  \/ q = <<>>
  \/ IContains(p.title, q)
  \/ IContains(p.description, q)
  \/ \E i \in 1..Len(p.techStack) : IContains(p.techStack[i], q)

TypeValues(p) == { p.type.v[i] : i \in 1..Len(p.type.v) }

DomainHolds(p) == selectedDomains = {} \/ p.domain \in selectedDomains

TypeHolds(p) == selectedTypes = {} \/ TypeValues(p) \cap selectedTypes # {}

AllHold(p) == QueryHolds(p, searchQuery) /\ DomainHolds(p) /\ TypeHolds(p)

\* C1: the filter returns exactly the catalog's subsequence of the projects
\* that satisfy the query, domain and type constraints together, in catalog
\* order; with a non-empty domain set no returned project lies outside it.
C1_FilterIsConjunctionInOrder ==
  LET result == filteredProjects
  IN  /\ result = SelectSeq(projects, AllHold)
      /\ selectedDomains # {} =>
           \A i \in 1..Len(result) : result[i].domain \in selectedDomains

C1_Witness ==
  LET result == filteredProjects
  IN  /\ searchQuery # <<>>
      /\ selectedDomains # {}
      /\ selectedTypes # {}
      /\ Len(result) >= 2
      /\ Len(result) < Len(projects)
      /\ \E i \in 1..Len(projects) :
           /\ QueryHolds(projects[i], searchQuery)
           /\ TypeHolds(projects[i])
           /\ ~DomainHolds(projects[i])

\* C2: with an empty query, no domain and no type selected, the filter
\* returns the whole catalog, each project once, in catalog order.
C2_EmptyFilterIsIdentity ==
  (searchQuery = <<>> /\ selectedDomains = {} /\ selectedTypes = {})
    => filteredProjects = projects

C2_Witness ==
  /\ event = "page"
  /\ searchQuery = <<>> /\ selectedDomains = {} /\ selectedTypes = {}
  /\ Len(projects) >= 2
  /\ filteredProjects = projects

\* C3: with a non-empty type set every returned project has a type value in
\* the set, a single-valued type counting as that one value.
C3_ReturnedHaveSelectedType ==
  LET result == filteredProjects
  IN  selectedTypes # {} =>
        \A i \in 1..Len(result) :
          \E t \in selectedTypes :
            \E k \in 1..Len(result[i].type.v) : result[i].type.v[k] = t

C3_Witness ==
  LET result == filteredProjects
  IN  /\ selectedTypes # {}
      /\ \E i \in 1..Len(result) : ~result[i].type.isArray
      /\ \E i \in 1..Len(projects) :
           /\ ~projects[i].type.isArray
           /\ \A k \in 1..Len(result) : result[k] # projects[i]

\* the filter applied with query q and no domain or type restriction
QueryOnly(q) == filterFrom(projects, 1, <<>>, q, {}, {})

\* C4: for a non-empty query a project passes the query test exactly when
\* the query, ignoring case, occurs in its title, its description or one of
\* its techStack entries; queries differing only in case give one result.
C4_QueryIsCaseInsensitiveSubstring ==
  LET passing == QueryOnly(searchQuery)
      result == filteredProjects
  IN  searchQuery # <<>> =>
        /\ \A i \in 1..Len(projects) :
             (\E k \in 1..Len(passing) : passing[k] = projects[i])
             <=> \/ IContains(projects[i].title, searchQuery)
                 \/ IContains(projects[i].description, searchQuery)
                 \/ \E t \in 1..Len(projects[i].techStack) :
                      IContains(projects[i].techStack[t], searchQuery)
        /\ \A q \in Queries :
             toLowerCase(q) = toLowerCase(searchQuery)
               => filterFrom(projects, 1, <<>>, q, selectedDomains,
                             selectedTypes) = result

C4_Witness ==
  LET passing == QueryOnly(searchQuery)
  IN  /\ searchQuery = <<"R","E","A","C","T">>
      /\ Len(passing) >= 1
      /\ Len(passing) < Len(projects)
      /\ \E i \in 1..Len(passing) :
           \E t \in 1..Len(passing[i].techStack) :
             passing[i].techStack[t] = <<"R","e","a","c","t">>

\* ------------------------------------------------ properties of the widget
\* the line is `name x`: the command name in any letter case, one space, and
\* one argument without white space
IsLineWithArg(line, name) ==
  /\ Len(line) >= Len(name) + 2
  /\ \A k \in 1..Len(name) : ToLowerChar(line[k]) = name[k]
  /\ line[Len(name) + 1] = " "
  /\ \A k \in (Len(name) + 2)..Len(line) : line[k] \notin WhiteSpace

\* the line is the bare command name, in any letter case
IsBareLine(line, name) ==
  /\ Len(line) = Len(name)
  /\ \A k \in 1..Len(name) : ToLowerChar(line[k]) = name[k]

LineArg(line, name) == SubSeq(line, Len(name) + 2, Len(line))

\* the catalog positions x refers to, by id or by title substring
Matches(x) ==
  { i \in 1..Len(projects) :
      projects[i].id = x \/ IContains(projects[i].title, x) }

EntryOf(line, kind, text) ==
  [command |-> line, output |-> [kind |-> kind, text |-> text, rows |-> <<>>]]

lsLine == <<"l","s">>

helpLine == <<"h","e","l","p">>

lsThenHelp ==
  <<welcomeEntry,
    [command |-> lsLine, output |-> lsExecute(<<>>)],
    [command |-> helpLine, output |-> helpExecute(<<>>)]>>

\* the widget after `ls`, `help` and two ArrowUp presses
AfterLsHelpUpUp ==
  /\ commandHistory = lsThenHelp
  /\ event = "ArrowUp"
  /\ commandIndex = 1
  /\ currentInput = lsLine

\* C5 (as stated): after `ls` and `help`, ArrowUp twice and ArrowDown once
\* leave the input buffer equal to "ls".
C5_RecallRestoresLs ==
  [][(AfterLsHelpUpUp /\ event' = "ArrowDown") => currentInput' = lsLine]_vars

\* C5 (amended): after `ls` and `help`, ArrowUp twice and ArrowDown once
\* leave the input buffer equal to "help", the cursor on the newest entry.
C5_RecallRestoresHelp ==
  [][(AfterLsHelpUpUp /\ event' = "ArrowDown")
       => (currentInput' = helpLine /\ commandIndex' = 2)]_vars

C5_Witness ==
  /\ commandHistory = lsThenHelp
  /\ event = "ArrowDown"
  /\ commandIndex = 2
  /\ currentInput = helpLine
  /\ cliOpen

\* C6: a line `open x` whose argument refers to a project invokes the
\* navigation callback exactly once, with that project's id, and appends
\* exactly one confirmation entry.
C6_OpenNavigatesOnce ==
  [][(/\ event' = "Enter"
      /\ IsLineWithArg(currentInput, openName)
      /\ Matches(LineArg(currentInput, openName)) # {})
       => \E i \in Matches(LineArg(currentInput, openName)) :
            /\ navCalled' = <<projects[i].id>>
            /\ commandHistory' =
                 Append(commandHistory,
                        EntryOf(currentInput, "opening", projects[i].title))]_vars

C6_Witness ==
  /\ event = "Enter"
  /\ navCalled = << <<"k","i","t">> >>
  /\ commandHistory =
       <<welcomeEntry,
         EntryOf(<<"o","p","e","n"," ","B","O","X">>, "opening", <<"T","o","o","l","B","o","x">>)>>

\* C7: when x refers to no project, `cat x` and `open x` each append exactly
\* one error entry and `open x` does not invoke the navigation callback; the
\* callback is invoked only by an `open` line whose argument refers to a
\* project.
C7_UnresolvedIsErrorWithoutNavigation ==
  [][/\ (/\ event' = "Enter"
         /\ IsLineWithArg(currentInput, catName)
         /\ Matches(LineArg(currentInput, catName)) = {})
          => /\ commandHistory' =
                  Append(commandHistory,
                         EntryOf(currentInput, "notFoundUseLs", <<>>))
             /\ navCalled' = <<>>
     /\ (/\ event' = "Enter"
         /\ IsLineWithArg(currentInput, openName)
         /\ Matches(LineArg(currentInput, openName)) = {})
          => /\ commandHistory' =
                  Append(commandHistory, EntryOf(currentInput, "notFound", <<>>))
             /\ navCalled' = <<>>
     /\ navCalled' # <<>>
          => /\ event' = "Enter"
             /\ IsLineWithArg(currentInput, openName)
             /\ Matches(LineArg(currentInput, openName)) # {}]_vars

C7_Witness ==
  /\ event = "Enter"
  /\ navCalled = <<>>
  /\ cliOpen
  /\ commandHistory =
       <<welcomeEntry,
         EntryOf(<<"o","p","e","n"," ","n","o","n","e","x","i","s","t","e","n","t","-","i","d">>, "notFound", <<>>)>>

\* C8: when some project's id equals the argument of `cat` or `open`, the
\* lookup returns that project, whatever titles the earlier projects have.
C8_ExactIdWins ==
  [][/\ (/\ event' = "Enter"
         /\ IsLineWithArg(currentInput, openName)
         /\ \E i \in 1..Len(projects) :
              projects[i].id = LineArg(currentInput, openName))
          => navCalled' = <<LineArg(currentInput, openName)>>
     /\ (/\ event' = "Enter"
         /\ IsLineWithArg(currentInput, catName)
         /\ \E i \in 1..Len(projects) :
              projects[i].id = LineArg(currentInput, catName))
          => commandHistory' =
               Append(commandHistory,
                      EntryOf(currentInput, "details",
                              LineArg(currentInput, catName)))]_vars

\* no project has domain x, letter case ignored
NoDomainIs(x) ==
  \A i \in 1..Len(projects) :
    \/ Len(projects[i].domain) # Len(x)
    \/ \E k \in 1..Len(x) : ToLowerChar(projects[i].domain[k]) # ToLowerChar(x[k])

AppendsOne(line, kinds) ==
  /\ Len(commandHistory') = Len(commandHistory) + 1
  /\ SubSeq(commandHistory', 1, Len(commandHistory)) = commandHistory
  /\ commandHistory'[Len(commandHistory')].command = line
  /\ commandHistory'[Len(commandHistory')].output.kind \in kinds

\* the line without its leading and trailing white space
Stripped(line) ==
  LET inner == { k \in 1..Len(line) : line[k] \notin WhiteSpace }
  IN  IF inner = {} THEN <<>>
      ELSE SubSeq(line, CHOOSE k \in inner : \A m \in inner : k <= m,
                        CHOOSE k \in inner : \A m \in inner : k >= m)

\* the first white-space-separated token of a line, lower-cased
RECURSIVE FirstWord(_)
FirstWord(line) ==
  IF line = <<>> \/ Head(line) \in WhiteSpace THEN <<>>
  ELSE <<ToLowerChar(Head(line))>> \o FirstWord(Tail(line))

\* C9: a line whose first token, lower-cased, is none of the eight command
\* names raises no exception, invokes no callback and appends exactly one
\* entry whose message names the token and suggests `help`.
C9_UnknownCommandIsReported ==
  [][(/\ event' = "Enter"
      /\ FirstWord(Stripped(currentInput)) # <<>>
      /\ FirstWord(Stripped(currentInput)) \notin CommandNames)
       => /\ ~thrown'
          /\ navCalled' = <<>>
          /\ closeCalled' = 0
          /\ AppendsOne(Stripped(currentInput), {"commandNotFound"})
          /\ commandHistory'[Len(commandHistory')].output.text =
               FirstWord(Stripped(currentInput))]_vars

\* C10: executing a line never raises an exception, and every failure path
\* (missing argument of cat, open, filter or search; unresolved project;
\* empty filter or search result) appends exactly one message entry, the
\* usage message differing from the not-found message.
C10_NoFatalErrorAndInlineFailures ==
  [][event' = "Enter" =>
       /\ ~thrown'
       /\ \A name \in {catName, openName, filterName, searchName} :
            /\ IsBareLine(currentInput, name)
                 => commandHistory' =
                      Append(commandHistory, EntryOf(currentInput, "usage", name))
       /\ \A name \in {catName, openName} :
            (/\ IsLineWithArg(currentInput, name)
             /\ Matches(LineArg(currentInput, name)) = {})
              => AppendsOne(currentInput, {"notFound", "notFoundUseLs"})
       /\ (/\ IsLineWithArg(currentInput, filterName)
           /\ NoDomainIs(LineArg(currentInput, filterName)))
            => AppendsOne(currentInput, {"noDomain"})
       /\ (/\ IsLineWithArg(currentInput, searchName)
           /\ \A i \in 1..Len(projects) :
                ~QueryHolds(projects[i], LineArg(currentInput, searchName)))
            => AppendsOne(currentInput, {"noMatch"})]_vars

\* the white-space-separated tokens of a line
RECURSIVE WordsFrom(_, _, _)
WordsFrom(line, i, cur) ==
  IF i > Len(line) THEN (IF cur = <<>> THEN <<>> ELSE <<cur>>)
  ELSE IF line[i] \in WhiteSpace
    THEN (IF cur = <<>> THEN <<>> ELSE <<cur>>) \o WordsFrom(line, i + 1, <<>>)
    ELSE WordsFrom(line, i + 1, Append(cur, line[i]))

Words(line) == WordsFrom(line, 1, <<>>)

RECURSIVE SingleSpaced(_)
SingleSpaced(words) ==
  IF words = <<>> THEN <<>>
  ELSE IF Len(words) = 1 THEN words[1]
  ELSE words[1] \o <<" ">> \o SingleSpaced(Tail(words))

\* the same tokens, the first in lower case, separated by single spaces
Canonical(line) ==
  LET words == Words(line)
  IN  IF words = <<>> THEN <<>>
      ELSE SingleSpaced(<<FirstWord(words[1])>> \o Tail(words))

OutputsOf(history) == [i \in 1..Len(history) |-> history[i].output]

\* C11: the line is split on white space, the first token selects the
\* command whatever its letter case and the other tokens are the arguments,
\* so any run of white space between them acts as a single space.
C11_WhitespaceRunsActAsOneSpace ==
  [][event' = "Enter" =>
       LET same == executeCommand(Canonical(currentInput))
       IN  /\ thrown' = same.threw
           /\ navCalled' = same.nav
           /\ closeCalled' = same.close
           /\ OutputsOf(commandHistory') = OutputsOf(same.history)]_vars

clearLine == <<"c","l","e","a","r">>

\* C12: `clear` empties the history, the welcome entry included, and appends
\* nothing; a `help` executed right after it leaves a history of length 1.
C12_ClearEmptiesHistory ==
  [][/\ (event' = "Enter" /\ currentInput = clearLine)
          => commandHistory' = <<>>
     /\ (event' = "Enter" /\ currentInput = helpLine /\ commandHistory = <<>>)
          => /\ Len(commandHistory') = 1
             /\ commandHistory'[1].command = helpLine
             /\ commandHistory'[1].output.kind = "help"]_vars

C12_Witness ==
  /\ event = "Enter"
  /\ cliOpen
  /\ Len(commandHistory) = 1
  /\ commandHistory[1].command = helpLine
  /\ commandHistory[1].output.kind = "help"

\* the domain of project p is x when letter case is ignored
DomainIs(p, x) ==
  /\ Len(p.domain) = Len(x)
  /\ \A k \in 1..Len(x) : ToLowerChar(p.domain[k]) = ToLowerChar(x[k])

\* the entry appended by the step lists exactly the projects of expected, in
\* that order, or is the given notice when expected is empty
ListsExactly(line, expected, notice) ==
  LET last == commandHistory'[Len(commandHistory')]
  IN  /\ Len(commandHistory') = Len(commandHistory) + 1
      /\ SubSeq(commandHistory', 1, Len(commandHistory)) = commandHistory
      /\ last.command = line
      /\ IF expected = <<>> THEN last.output.kind = notice
         ELSE /\ last.output.kind = "list"
              /\ Len(last.output.rows) = Len(expected)
              /\ \A i \in 1..Len(expected) :
                   /\ last.output.rows[i].id = expected[i].id
                   /\ last.output.rows[i].title = expected[i].title

\* C13: `filter <token>` lists exactly the projects whose domain equals the
\* token ignoring letter case, in catalog order, or the "no projects" notice
\* when there is none; so tokens differing only in case list the same.
C13_FilterListsDomainIgnoringCase ==
  [][(event' = "Enter" /\ IsLineWithArg(currentInput, filterName))
       => LET x == LineArg(currentInput, filterName)
              InDomain(p) == DomainIs(p, x)
              expected == SelectSeq(projects, InDomain)
          IN  ListsExactly(currentInput, expected, "noDomain")]_vars

C13_Witness ==
  /\ event = "Enter"
  /\ Len(commandHistory) = 2
  /\ commandHistory[2].command = <<"f","i","l","t","e","r"," ","S","E","C","U","R","I","T","Y">>
  /\ commandHistory[2].output.kind = "list"
  /\ Len(commandHistory[2].output.rows) >= 1
  /\ \A i \in 1..Len(commandHistory[2].output.rows) :
       \E k \in 1..Len(projects) :
         /\ projects[k].id = commandHistory[2].output.rows[i].id
         /\ projects[k].domain = Security

\* the line is `search`, one space, and a query text of single-spaced tokens
IsSearchLine(line) ==
  /\ Len(line) >= Len(searchName) + 2
  /\ \A k \in 1..Len(searchName) : ToLowerChar(line[k]) = searchName[k]
  /\ line[Len(searchName) + 1] = " "
  /\ line = Canonical(line)

\* C14: `search q` lists exactly, and in the same order, the projects the
\* page filter returns for query q with empty domain and type sets, or the
\* "no match" notice when that result is empty.
C14_SearchAgreesWithPageFilter ==
  [][(event' = "Enter" /\ IsSearchLine(currentInput))
       => LET q == LineArg(currentInput, searchName)
              expected == QueryOnly(q)
          IN  ListsExactly(currentInput, expected, "noMatch")]_vars

C14_Witness ==
  /\ event = "Enter"
  /\ Len(commandHistory) = 2
  /\ commandHistory[2].command = <<"s","e","a","r","c","h"," ","R","E","A","C","T">>
  /\ commandHistory[2].output.kind = "list"
  /\ LET found == QueryOnly(<<"r","e","a","c","t">>)
     IN  /\ Len(found) >= 1
         /\ Len(found) < Len(projects)
         /\ Len(commandHistory[2].output.rows) = Len(found)

\* the line is `exit`, in any letter case, alone or followed by a space and
\* arguments; white space around the line is ignored
IsExitLine(line) ==
  LET inner == Stripped(line)
  IN  /\ Len(inner) >= Len(exitName)
      /\ \A k \in 1..Len(exitName) : ToLowerChar(inner[k]) = exitName[k]
      /\ Len(inner) > Len(exitName) => inner[Len(exitName) + 1] = " "

\* C15: `exit`, with or without arguments, and the Escape key each invoke
\* the close callback exactly once and leave the history as it was.
C15_ExitAndEscapeCloseOnly ==
  [][(\/ event' = "Escape"
      \/ (event' = "Enter" /\ IsExitLine(currentInput)))
       => /\ closeCalled' = 1
          /\ navCalled' = <<>>
          /\ ~thrown'
          /\ commandHistory' = commandHistory]_vars

C15_Witness ==
  /\ event = "Enter"
  /\ closeCalled = 1
  /\ ~cliOpen
  /\ Len(commandHistory) = 2
  /\ commandHistory[1] = welcomeEntry
  /\ commandHistory[2].command = helpLine

\* C16: whenever the widget goes from closed to open its history is exactly
\* the one welcome entry, whatever the earlier session left behind.
C16_OpeningStartsFromWelcome ==
  [][(~cliOpen /\ cliOpen') => commandHistory' = <<welcomeEntry>>]_vars

C16_Witness ==
  /\ event = "open"
  /\ cliOpen
  /\ commandHistory = <<welcomeEntry>>
  /\ commandIndex >= 1

\* the history is the welcome entry followed by at least one entered line
WelcomeThenLines ==
  /\ Len(commandHistory) >= 2
  /\ commandHistory[1] = welcomeEntry

\* C17: over a history of the welcome entry and n >= 1 entered lines, the
\* k-th ArrowUp from the not-browsing state puts the k-th most recent line in
\* the buffer for k <= n, further presses keep the oldest line there, and no
\* ArrowUp or ArrowDown loads the text of the welcome entry.
C17_BackwardRecallStopsAtOldest ==
  [][/\ (event' = "ArrowDown" /\ WelcomeThenLines /\ commandIndex' = 0)
          => currentInput' = currentInput
     /\ (event' = "ArrowUp" /\ WelcomeThenLines)
       => LET n == Len(commandHistory) - 1
              line(i) == commandHistory[i + 1].command
          IN  /\ commandIndex = -1
                   => commandIndex' = n /\ currentInput' = line(n)
              /\ (commandIndex \in 2..n /\ currentInput = line(commandIndex))
                   => /\ commandIndex' = commandIndex - 1
                      /\ currentInput' = line(commandIndex - 1)
              /\ (commandIndex \in {0, 1} /\ currentInput = line(1))
                   => commandIndex' = 0 /\ currentInput' = line(1)
              /\ commandIndex' = 0 => currentInput' = currentInput]_vars

\* C18: while the cursor is on an entry, ArrowDown moves it to the next newer
\* entry and loads that entry's line; on the newest entry it clears the
\* buffer and returns the cursor to -1.
C18_ForwardRecall ==
  [][(/\ event' = "ArrowDown"
      /\ commandIndex >= 0
      /\ commandIndex < Len(commandHistory))
       => IF commandIndex = Len(commandHistory) - 1
            THEN commandIndex' = -1 /\ currentInput' = <<>>
            ELSE /\ commandIndex' = commandIndex + 1
                 /\ currentInput' = commandHistory[commandIndex + 2].command]_vars

C18_Witness ==
  /\ event = "ArrowDown"
  /\ cliOpen
  /\ Len(commandHistory) = 3
  /\ commandHistory[2].command = helpLine
  /\ commandHistory[3].command = lsLine
  /\ commandIndex = 2
  /\ currentInput = lsLine

\* C19: after every Enter, whatever the line, the recall cursor is -1 and the
\* input buffer is empty.
C19_EnterResetsCursorAndBuffer ==
  [][event' = "Enter" => commandIndex' = -1 /\ currentInput' = <<>>]_vars

\* C20: in both hosts an `open` that resolves to a project leaves the widget
\* closed, and on the home page the selected project becomes that project;
\* an `open` that resolves to nothing leaves the widget open and the selected
\* project unchanged.
C20_OpenClosesWidgetAndSelects ==
  [][(event' = "Enter" /\ IsLineWithArg(currentInput, openName))
       => LET hits == Matches(LineArg(currentInput, openName))
          IN  IF hits # {}
                THEN /\ ~cliOpen'
                     /\ host = "Home"
                          => \E i \in hits :
                               /\ navCalled' = <<projects[i].id>>
                               /\ selectedProject' = <<projects[i]>>
                     /\ host = "CLIToggle"
                          => selectedProject' = selectedProject
                ELSE /\ cliOpen'
                     /\ selectedProject' = selectedProject]_vars

C20_Witness ==
  /\ event = "Enter"
  /\ host = "Home"
  /\ ~cliOpen
  /\ navCalled = << <<"l","o","c","k","-","a","n","d","-","k","e","y">> >>
  /\ selectedProject # <<>>
  /\ selectedProject[1].id = <<"l","o","c","k","-","a","n","d","-","k","e","y">>

\* C21: `ls` emits one row per catalog project, in catalog order, and row i
\* is numbered i; so every project appears exactly once.
C21_LsListsCatalogInOrder ==
  [][(event' = "Enter" /\ IsBareLine(currentInput, lsName))
       => LET last == commandHistory'[Len(commandHistory')]
          IN  /\ Len(commandHistory') = Len(commandHistory) + 1
              /\ last.command = currentInput
              /\ last.output.kind = "list"
              /\ Len(last.output.rows) = Len(projects)
              /\ \A i \in 1..Len(projects) :
                   /\ last.output.rows[i].n = i
                   /\ last.output.rows[i].id = projects[i].id
                   /\ last.output.rows[i].title = projects[i].title
                   /\ last.output.rows[i].domain = projects[i].domain
                   /\ last.output.rows[i].featured = projects[i].featured
              /\ \A k \in 1..Len(projects) :
                   Cardinality({ i \in 1..Len(last.output.rows) :
                                   last.output.rows[i].id = projects[k].id }) = 1]_vars

C21_Witness ==
  /\ event = "Enter"
  /\ Len(commandHistory) = 2
  /\ commandHistory[2].command = <<"L","S">>
  /\ commandHistory[2].output.kind = "list"
  /\ Len(commandHistory[2].output.rows) = Len(projects)
  /\ Len(projects) >= 2
  /\ \E i \in 1..Len(projects) : ~projects[i].featured

\* C22: no page-filter operation and no interpreter operation changes the
\* catalog's contents or order.
C22_CatalogIsReadOnly ==
  [][projects' = projects]_vars

C22_Witness ==
  /\ projects = RealCatalog
  /\ event = "Enter"
  /\ searchQuery # <<>>
  /\ Cardinality(selectedDomains) + Cardinality(selectedTypes) >= 1
  /\ Len(commandHistory) = 2
  /\ commandHistory[2].output.kind = "list"
  /\ Len(commandHistory[2].output.rows) < Len(projects)

\* C23: once the provider is mounted and storage writes succeed, after any
\* setThemeName and toggleColorMode calls the stored 'theme' and 'colorMode'
\* equal the provider's theme name and color mode.
C23_StoredThemeFollowsState ==
  (mounted /\ storageWorks)
    => /\ storage.theme = <<themeName>>
       /\ storage.colorMode = <<colorMode>>

C23_Witness ==
  /\ mounted
  /\ storageWorks
  /\ event = "toggleColorMode"
  /\ themeName = "cyber"
  /\ colorMode = "light"
  /\ storage = [theme |-> <<"cyber">>, colorMode |-> <<"light">>]

\* C24: the tagline starts at the first one, every tick advances it to the
\* next in list order and wraps after the last, so the index stays within the
\* list and the sequence has period Len(taglines).
C24_TaglineRotates ==
  /\ currentTagline \in 0..(Len(taglines) - 1)
  /\ currentTagline = ticks % Len(taglines)

C24_Witness ==
  /\ event = "tick"
  /\ ticks = Len(taglines) + 1
  /\ currentTagline = 1

\* C25: in every reachable state the recall cursor is -1 or an index into
\* the current history.
C25_CursorIsValidIndex ==
  \/ commandIndex = -1
  \/ (0 <= commandIndex /\ commandIndex < Len(commandHistory))

\* C26: while a send is in flight the status is 'sending', so at most one
\* send is in flight at any time, pending reset timers notwithstanding.
C26_OneSendInFlight ==
  /\ (inFlight + simulations > 0) => status = "sending"
  /\ inFlight + simulations <= 1

\* the line's first token, lower-cased, is `clear`
IsClearLine(line) == FirstWord(Stripped(line)) = clearName

\* C27: executing a line other than `clear` leaves every existing history
\* entry unchanged and in place and appends at most one entry, whose command
\* is the trimmed input line.
C27_HistoryIsAppendOnly ==
  [][(event' = "Enter" /\ ~IsClearLine(currentInput))
       => \/ commandHistory' = commandHistory
          \/ /\ Len(commandHistory') = Len(commandHistory) + 1
             /\ SubSeq(commandHistory', 1, Len(commandHistory)) = commandHistory
             /\ commandHistory'[Len(commandHistory')].command
                  = Stripped(currentInput)]_vars

C27_Witness ==
  /\ event = "Enter"
  /\ Len(commandHistory) = 3
  /\ commandHistory[1] = welcomeEntry
  /\ commandHistory[2].command = helpLine
  /\ commandHistory[3].command = lsLine
  /\ commandHistory[3].output.kind = "list"
  /\ currentInput = <<>>

\* C28: every entry of the history that a typed line produced can be
\* recalled: ArrowUp presses from the not-browsing state step the cursor back
\* through the entries one at a time, and landing on such an entry puts its
\* line in the buffer, also when that line is the word `welcome`.
C28_EveryTypedLineIsRecallable ==
  [][(event' = "ArrowUp" /\ Len(commandHistory) > 0)
       => /\ commandIndex = -1 => commandIndex' = Len(commandHistory) - 1
          /\ commandIndex \in 1..(Len(commandHistory) - 1)
               => commandIndex' = commandIndex - 1
          /\ (/\ commandIndex' \in 0..(Len(commandHistory) - 1)
              /\ commandHistory[commandIndex' + 1] # welcomeEntry)
               => currentInput' = commandHistory[commandIndex' + 1].command]_vars

\* the line is `filter`, a first token and more tokens, single-spaced
IsFilterLineWithMore(line) ==
  LET words == Words(line)
  IN  /\ Len(words) >= 3
      /\ FirstWord(words[1]) = filterName
      /\ line = SingleSpaced(words)

\* C29: `filter <t> <more tokens>` emits exactly what `filter <t>` emits.
C29_FilterUsesFirstTokenOnly ==
  [][(event' = "Enter" /\ IsFilterLineWithMore(currentInput))
       => LET words == Words(currentInput)
              short == executeCommand(SingleSpaced(<<words[1], words[2]>>))
          IN  /\ Len(commandHistory') = Len(commandHistory) + 1
              /\ Len(short.history) = Len(commandHistory) + 1
              /\ commandHistory'[Len(commandHistory')].output
                   = short.history[Len(short.history)].output]_vars

C29_Witness ==
  /\ event = "Enter"
  /\ projects = RealCatalog
  /\ Len(commandHistory) = 2
  /\ commandHistory[2].command =
       <<"f","i","l","t","e","r"," ","d","a","t","a"," ","e","n","g","i","n","e","e","r","i","n","g">>
  /\ commandHistory[2].output.kind = "noDomain"
  /\ \E i \in 1..Len(projects) : projects[i].domain = DataEngineering

\* C30: Enter on an empty or white-space-only line appends no entry, invokes
\* neither callback and leaves the history unchanged.
C30_BlankLineIsNoOp ==
  [][(event' = "Enter" /\ Stripped(currentInput) = <<>>)
       => /\ commandHistory' = commandHistory
          /\ closeCalled' = 0
          /\ navCalled' = <<>>
          /\ ~thrown'
          /\ cliOpen']_vars

C30_Witness ==
  /\ event = "Enter"
  /\ cliOpen
  /\ ~thrown
  /\ closeCalled = 0
  /\ navCalled = <<>>
  /\ commandHistory = <<welcomeEntry>>
  /\ currentInput = <<>>

=============================================================================
